---- MODULE Spec2Model ----
(***************************************************************************)
(* The dialogue state machine of the LINE form-filling bot (src/app.py)    *)
(* with the Google Sheets utilities it calls (src/google_sheets.py) and    *)
(* the structured-record builder (src/chatgpt_processor.py).               *)
(*                                                                         *)
(* Text.  A Python str is a sequence of tokens: the half-width space SP,   *)
(* or a word (a maximal run of non-space characters, kept atomic).  The    *)
(* empty string is <<>>.  Module strings are ASCII only, so a Japanese     *)
(* word is written "ja:<romaji>" and the original is given in a comment.   *)
(***************************************************************************)
EXTENDS Naturals, Sequences, FiniteSets, TLC

VARIABLES
    user_sessions,  \* app.py:44   dict user_id -> session dict
    members,        \* the "members" worksheet: user_id -> first row with that id
    event,          \* the last message event: who sent what to which session
    replies,        \* the safe_reply calls made for that message, in order
    calls,          \* the collaborator calls made for that message, in order
    response,       \* what callback returned for that message ("" before any)
    inflight,       \* per server thread: the collaborator call it is waiting in
    applied         \* a formatter or builder applied on its own: input and result

vars == <<user_sessions, members, event, replies, calls, response, inflight, applied>>

---------------------------------------------------------------------------
(* Bounds of the model *)

\* The consultation catalog is the first NumConsult of the 27 fields.
NumConsult == 2

\* The users that send messages.
Users == {"U1"}

\* The threads of the server that handle deliveries at the same time.
Threads == {"T1", "T2"}

\* The values datetime.now() takes during a run (date YYYYMMDD, time HHMM).
Clock == {[date |-> "20250809", hhmm |-> "1430"]}

---------------------------------------------------------------------------
(* str operations *)

SP == " "

\* str.strip(), left part
RECURSIVE lstrip(_)
lstrip(s) == IF s # <<>> /\ Head(s) = SP THEN lstrip(Tail(s)) ELSE s

\* str.strip(), right part
RECURSIVE rstrip(_)
rstrip(s) == IF s # <<>> /\ s[Len(s)] = SP THEN rstrip(SubSeq(s, 1, Len(s) - 1)) ELSE s

\* (event.message.text or "").strip()
strip(s) == rstrip(lstrip(s))

\* str.lower() of one word: only the ASCII words of the model have capitals
lower_word(w) ==
    CASE w = "OK"  -> "ok"
      [] w = "Ok"  -> "ok"
      [] w = "YES" -> "yes"
      [] w = "Yes" -> "yes"
      [] w = "NO"  -> "no"
      [] w = "No"  -> "no"
      [] OTHER     -> w

\* text.lower()
lower(s) == [i \in 1..Len(s) |-> lower_word(s[i])]

\* " " in text
has_space(s) == \E i \in 1..Len(s) : s[i] = SP

\* index of the first half-width space of s
first_space(s) == CHOOSE i \in 1..Len(s) : s[i] = SP /\ \A j \in 1..(i - 1) : s[j] # SP

\* text.split(" ", 1): [key, value]
split(s) == [key   |-> SubSeq(s, 1, first_space(s) - 1),
             value |-> SubSeq(s, first_space(s) + 1, Len(s))]

---------------------------------------------------------------------------
(* Keyword lists of handle_message *)

\* ["キャンセル", "中止", "やめる"]
CANCEL_WORDS == {<<"ja:kyanseru">>, <<"ja:chuushi">>, <<"ja:yameru">>}

\* ["登録する", "登録したい"]
REGISTER_WORDS == {<<"ja:touroku-suru">>, <<"ja:touroku-shitai">>}

\* ["依頼する", "依頼したい", "相談したい"]
CONSULT_WORDS == {<<"ja:irai-suru">>, <<"ja:irai-shitai">>, <<"ja:soudan-shitai">>}

\* ["はい", "ok", "yes", "はい。", "うん"]
YES_WORDS == {<<"ja:hai">>, <<"ok">>, <<"yes">>, <<"ja:hai.">>, <<"ja:un">>}

\* ["いいえ", "no", "いや", "変更", "修正"]
NO_WORDS == {<<"ja:iie">>, <<"no">>, <<"ja:iya">>, <<"ja:henkou">>, <<"ja:shuusei">>}

MAX_CONFIRM_RETRIES == 3

---------------------------------------------------------------------------
(* Question catalogs *)

\* The keys of _LABEL_MAP in source order: the 27 consultation fields.
LABEL_KEYS ==
    << "furigana", "patient_name", "gender", "dob", "age", "address",
       "postal_code", "home_phone", "mobile_phone", "emergency_contact",
       "parking", "residence_type", "care_level", "medical_history",
       "current_condition", "infection_status", "internal_medicine_hospital",
       "internal_medicine_doctor", "communication_ability",
       "swallowing_function", "medication_status", "onset_date",
       "preferred_visit_time", "accompanying_person", "key_person_name",
       "key_person_relationship", "key_person_address" >>

\* _LABEL_MAP: field -> Japanese label
\*   ふりがな 氏名 性別 生年月日 年齢 住所（施設名含む） 郵便番号 電話（自宅）
\*   電話（携帯） 緊急連絡先電話番号 駐車場 居住形態 要介護度 既往歴 現病歴
\*   感染症 内科主治医_病院名 内科主治医_医師名 意思疎通 嚥下機能 服薬状況
\*   発症日・発症年 希望訪問曜日・時間帯 同席者 キーパーソン_氏名
\*   キーパーソン_続柄 キーパーソン_住所
LABEL_MAP ==
    [ furigana                   |-> "ja:furigana",
      patient_name               |-> "ja:shimei",
      gender                     |-> "ja:seibetsu",
      dob                        |-> "ja:seinengappi",
      age                        |-> "ja:nenrei",
      address                    |-> "ja:juusho(shisetsumei-fukumu)",
      postal_code                |-> "ja:yuubin-bangou",
      home_phone                 |-> "ja:denwa(jitaku)",
      mobile_phone               |-> "ja:denwa(keitai)",
      emergency_contact          |-> "ja:kinkyuu-renrakusaki-denwa-bangou",
      parking                    |-> "ja:chuushajou",
      residence_type             |-> "ja:kyojuu-keitai",
      care_level                 |-> "ja:youkaigodo",
      medical_history            |-> "ja:kioureki",
      current_condition          |-> "ja:genbyoureki",
      infection_status           |-> "ja:kansenshou",
      internal_medicine_hospital |-> "ja:naika-shujii_byouinmei",
      internal_medicine_doctor   |-> "ja:naika-shujii_ishimei",
      communication_ability      |-> "ja:ishi-sotsuu",
      swallowing_function        |-> "ja:enge-kinou",
      medication_status          |-> "ja:fukuyaku-joukyou",
      onset_date                 |-> "ja:hasshoubi-hasshounen",
      preferred_visit_time       |-> "ja:kibou-houmon-youbi-jikantai",
      accompanying_person        |-> "ja:dousekisha",
      key_person_name            |-> "ja:kii-paason_shimei",
      key_person_relationship    |-> "ja:kii-paason_tsuzukigara",
      key_person_address         |-> "ja:kii-paason_juusho" ]

\* CONSULT_QUESTIONS = _load_questions("questions.json"), cut to NumConsult
\* entries.  The prompt of a question is an opaque text naming its field.
CONSULT_QUESTIONS ==
    [i \in 1..NumConsult |->
        [field |-> LABEL_KEYS[i], question |-> <<"consult-question:", LABEL_KEYS[i]>>]]

\* REGISTER_QUESTIONS = _load_questions("register_questions.json"): five
\* questions with unique field identifiers.  Four are the fields that
\* _format_register_preview and register_user read; the identifier of the
\* fifth is not fixed by the code that reads the catalog.
REGISTER_QUESTIONS ==
    << [field |-> "office",  question |-> <<"register-question:", "office">>],
       [field |-> "address", question |-> <<"register-question:", "address">>],
       [field |-> "role",    question |-> <<"register-question:", "role">>],
       [field |-> "name",    question |-> <<"register-question:", "name">>],
       [field |-> "phone",   question |-> <<"register-question:", "phone">>] >>

---------------------------------------------------------------------------
(* dict helpers *)

\* {}
EmptyAnswers == [f \in {} |-> <<>>]

\* answers.get(key, "")
get(answers, key) == IF key \in DOMAIN answers THEN answers[key] ELSE <<>>

\* an assignment that writes the value under every key
put_all(answers, key, value) ==
    [f \in (DOMAIN answers) \cup {key} |-> value]

\* answers[key] = value
put(answers, key, value) ==
    [f \in (DOMAIN answers) \cup {key} |-> IF f = key THEN value ELSE answers[f]]

\* a pop that removes nothing (the entry is read, not popped)
pop_keeps(sessions, user_id) == sessions

\* user_sessions.pop(user_id, None)
pop(sessions, user_id) == [u \in (DOMAIN sessions) \ {user_id} |-> sessions[u]]

\* user_sessions[user_id] = ses
store(sessions, user_id, ses) ==
    [u \in (DOMAIN sessions) \cup {user_id} |-> IF u = user_id THEN ses ELSE sessions[u]]

---------------------------------------------------------------------------
(* Outbound messages: the text handed to safe_reply.  A message is a record *)
(* of the template used (kind) and its lines; a line is <<label, text>>.    *)

\* a fixed text without interpolation
Fixed(kind) == [kind |-> kind, body |-> <<>>]

\* "中止しました。"
MSG_CANCELLED == Fixed("cancelled")

\* "まず、依頼者情報の登録をお願いします。"
MSG_REDIRECT == Fixed("register-first")

\* "✅ 登録が完了しました。次に患者さま情報を伺います。"
MSG_REGISTERED == Fixed("registered")

\* "大変申し訳御座いませんが、070-1689-2637まで、お電話ください。"
MSG_ESCALATION == Fixed("escalation")

\* "登録情報を修正します。はじめから伺います。"
MSG_RESTART == Fixed("restart-register")

\* "『はい』または『いいえ』でお答えください。"
MSG_YES_OR_NO == Fixed("answer-yes-or-no")

\* "修正したい項目と内容を『項目名 半角スペース 値』の形式で送ってください。\n例）氏名 佐藤花子"
MSG_EDIT_HOWTO == Fixed("edit-howto")

\* "『項目名 半角スペース 値』の形式で入力してください。"
MSG_EDIT_FORMAT == Fixed("edit-format")

\* "次のいずれかを送ってください：..." (the command menu)
MSG_MENU == Fixed("menu")

\* the prompt text of a catalog question
MsgQuestion(q) == [kind |-> "question", body |-> << <<"prompt", q.question>> >>]

\* f"『{key}』を『{value}』に修正しました。"
MsgEdited(key, value) ==
    [kind |-> "edited", body |-> << <<"key", key>>, <<"value", value>> >>]

\* f"『{key}』という項目が見つかりませんでした。もう一度お試しください。"
MsgNotFound(key) == [kind |-> "field-not-found", body |-> << <<"key", key>> >>]

\* f"✅ ありがとうございました。内容を記録しました。\n→ シート名：{sheet_name}"
MsgRecorded(sheet_name) ==
    [kind |-> "recorded", body |-> << <<"ja:shiito-mei", sheet_name>> >>]

\* "この内容で登録します。よろしいですか？（はい / いいえ）"
PROMPT_REGISTER == <<"ja:kono-naiyou-de-touroku-shimasu.yoroshii-desu-ka?(hai / iie)", <<>>>>

\* "\nこの内容でよろしいですか？（はい / いいえ）"
PROMPT_CONSULT == <<"ja:kono-naiyou-de-yoroshii-desu-ka?(hai / iie)", <<>>>>

\* "\n\nこの登録情報でよろしいですか？（はい / いいえ）"
PROMPT_MEMBER == <<"ja:kono-touroku-jouhou-de-yoroshii-desu-ka?(hai / iie)", <<>>>>

\* a preview whose 役職 line repeats the name
format_register_preview_role(answers) ==
    [kind |-> "register-preview",
     body |-> << <<"ja:shimei",       get(answers, "name")>>,
                 <<"ja:jigyoushomei", get(answers, "office")>>,
                 <<"ja:juusho",       get(answers, "address")>>,
                 <<"ja:yakushoku",    get(answers, "name")>>,
                 PROMPT_REGISTER >>]

\* _format_register_preview: 氏名, 事業所名, 住所, 役職, then the prompt
format_register_preview(answers) ==
    [kind |-> "register-preview",
     body |-> << <<"ja:shimei",       get(answers, "name")>>,
                 <<"ja:jigyoushomei", get(answers, "office")>>,
                 <<"ja:juusho",       get(answers, "address")>>,
                 <<"ja:yakushoku",    get(answers, "role")>>,
                 PROMPT_REGISTER >>]

\* a lookup that heads every line with the field identifier
label_of_raw(key) == key

\* the label of a field: _LABEL_MAP.get(key, key)
label_of(key) == IF key \in DOMAIN LABEL_MAP THEN LABEL_MAP[key] ELSE key

\* the lines of _format_consult_preview for the questions i.. of the loaded
\* catalog: one line per question, in catalog order, whose answer is not
\* empty
RECURSIVE consult_lines_of(_, _, _)
consult_lines_of(questions, answers, i) ==
    IF i > Len(questions) THEN <<>>
    ELSE LET key == questions[i].field
             val == get(answers, key)
         IN  (IF val # <<>> THEN << <<label_of(key), val>> >> ELSE <<>>)
             \o consult_lines_of(questions, answers, i + 1)

\* the same over CONSULT_QUESTIONS
consult_lines(answers, i) == consult_lines_of(CONSULT_QUESTIONS, answers, i)

\* _format_consult_preview, with questions the catalog that was loaded
format_consult_preview_of(questions, answers) ==
    [kind |-> "consult-preview",
     body |-> consult_lines_of(questions, answers, 1) \o <<PROMPT_CONSULT>>]

\* _format_consult_preview
format_consult_preview(answers) ==
    format_consult_preview_of(CONSULT_QUESTIONS, answers)

---------------------------------------------------------------------------
(* chatgpt_processor.py: the structured record *)

\* section names: 患者情報, 医療情報, 連絡・調整, and 登録者情報 (added by
\* write_structured_data)
SEC_PATIENT == "ja:kanja-jouhou"
SEC_MEDICAL == "ja:iryou-jouhou"
SEC_COORDINATION == "ja:renraku-chousei"
SEC_MEMBER == "ja:tourokusha-jouhou"

\* patient_info (ふりがな ... 要介護度): label -> answers.get(field, "")
patient_info(answers) ==
    "ja:furigana"                          :> get(answers, "furigana") @@
    "ja:shimei"                            :> get(answers, "patient_name") @@
    "ja:seibetsu"                          :> get(answers, "gender") @@
    "ja:seinengappi"                       :> get(answers, "dob") @@
    "ja:nenrei"                            :> get(answers, "age") @@
    "ja:juusho(shisetsumei-fukumu)"        :> get(answers, "address") @@
    "ja:yuubin-bangou"                     :> get(answers, "postal_code") @@
    "ja:denwa(jitaku)"                     :> get(answers, "home_phone") @@
    "ja:denwa(keitai)"                     :> get(answers, "mobile_phone") @@
    "ja:kinkyuu-renrakusaki-denwa-bangou"  :> get(answers, "emergency_contact") @@
    "ja:chuushajou"                        :> get(answers, "parking") @@
    "ja:kyojuu-keitai"                     :> get(answers, "residence_type") @@
    "ja:youkaigodo"                        :> get(answers, "care_level")

\* medical_info (既往歴 ... 発症日・発症年)
medical_info(answers) ==
    "ja:kioureki"                  :> get(answers, "medical_history") @@
    "ja:genbyoureki"               :> get(answers, "current_condition") @@
    "ja:kansenshou"                :> get(answers, "infection_status") @@
    "ja:naika-shujii_byouinmei"    :> get(answers, "internal_medicine_hospital") @@
    "ja:naika-shujii_ishimei"      :> get(answers, "internal_medicine_doctor") @@
    "ja:ishi-sotsuu"               :> get(answers, "communication_ability") @@
    "ja:enge-kinou"                :> get(answers, "swallowing_function") @@
    "ja:fukuyaku-joukyou"          :> get(answers, "medication_status") @@
    "ja:hasshoubi-hasshounen"      :> get(answers, "onset_date")

\* a section that files the name of the patient as the name of the key person
coordination_info_patient(answers) ==
    "ja:kibou-houmon-youbi-jikantai" :> get(answers, "preferred_visit_time") @@
    "ja:dousekisha"                  :> get(answers, "accompanying_person") @@
    "ja:kii-paason_shimei"           :> get(answers, "patient_name") @@
    "ja:kii-paason_tsuzukigara"      :> get(answers, "key_person_relationship") @@
    "ja:kii-paason_juusho"           :> get(answers, "key_person_address")

\* coordination_info (希望訪問曜日・時間帯 ... キーパーソン_住所)
coordination_info(answers) ==
    "ja:kibou-houmon-youbi-jikantai" :> get(answers, "preferred_visit_time") @@
    "ja:dousekisha"                  :> get(answers, "accompanying_person") @@
    "ja:kii-paason_shimei"           :> get(answers, "key_person_name") @@
    "ja:kii-paason_tsuzukigara"      :> get(answers, "key_person_relationship") @@
    "ja:kii-paason_juusho"           :> get(answers, "key_person_address")

\* ConversationManager.build_structured_json
build_structured_json(answers) ==
    SEC_PATIENT      :> patient_info(answers) @@
    SEC_MEDICAL      :> medical_info(answers) @@
    SEC_COORDINATION :> coordination_info(answers)

\* a record built from no answer
answers_to_structured_json_blank(answers) == build_structured_json(EmptyAnswers)

\* app.py _answers_to_structured_json
answers_to_structured_json(answers) == build_structured_json(answers)

---------------------------------------------------------------------------
(* google_sheets.py.  Every call to the Sheets API may raise; the outcome  *)
(* of a call is an input of the step that makes it.                        *)

\* Optional[...]: None is <<>>, a value v is <<v>>
None == <<>>

\* a row of the members sheet as get_member_info returns it
member_row(user_id, office, address, role, name) ==
    [user_id |-> <<user_id>>, office |-> office, address |-> address,
     role |-> role, name |-> name]

\* is_user_registered: user_id in column 1; False when the API raises
is_user_registered(user_id, api_ok) == api_ok /\ user_id \in DOMAIN members

\* get_member_info: the first row whose first cell is user_id; None when
\* there is none or when the API raises
get_member_info(user_id, api_ok) ==
    IF api_ok /\ user_id \in DOMAIN members THEN <<members[user_id]>> ELSE None

\* register_user: append_row([user_id, office, address, role, name]).  A row
\* appended after another row of the same user is never read back.
register_user(user_id, office, address, role, name) ==
    IF user_id \in DOMAIN members THEN members
    ELSE [u \in (DOMAIN members) \cup {user_id} |->
             IF u = user_id THEN member_row(user_id, office, address, role, name)
             ELSE members[u]]

\* format_member_info
format_member_info(mi) ==
    IF mi = None
    THEN << <<"ja:touroku-jouhou-wa-mitsukarimasen-deshita.", <<>>>> >>
    ELSE << <<"ja:shimei",       mi[1].name>>,
            <<"ja:jigyoushomei", mi[1].office>>,
            <<"ja:juusho",       mi[1].address>>,
            <<"ja:yakushoku",    mi[1].role>>,
            <<"ja:yuuzaa-ID",    mi[1].user_id>> >>

\* format_member_info(mi) + "\n\nこの登録情報でよろしいですか？（はい / いいえ）"
MsgMemberConfirm(mi) ==
    [kind |-> "member-confirm", body |-> format_member_info(mi) \o <<PROMPT_MEMBER>>]

\* "無名"
NO_NAME == <<"ja:mumei">>

\* dict.get(section, {}).get("氏名") of a record
section_name(json_data, section) ==
    IF section \in DOMAIN json_data /\ "ja:shimei" \in DOMAIN json_data[section]
    THEN json_data[section]["ja:shimei"] ELSE <<>>

\* _resolve_patient_name: 患者情報.氏名 or 相談者情報.氏名 or 患者名 or "無名"
resolve_patient_name(json_data) ==
    IF section_name(json_data, SEC_PATIENT) # <<>>
    THEN section_name(json_data, SEC_PATIENT)
    ELSE IF section_name(json_data, "ja:soudansha-jouhou") # <<>>
    THEN section_name(json_data, "ja:soudansha-jouhou")
    ELSE IF "ja:kanja-mei" \in DOMAIN json_data /\ json_data["ja:kanja-mei"] # <<>>
    THEN json_data["ja:kanja-mei"]
    ELSE NO_NAME

\* Outcomes of the Sheets API inside one write_structured_data call.  The
\* spreadsheet is shared with its human readers, so whether a title is taken
\* is an outcome of the call, like a failure of the API:
\*   "ok"      every call succeeds and the title is free
\*   "open"    open_by_key raises
\*   "add"     add_worksheet raises and the title is not among the worksheets
\*   "taken"   the title is taken, the title with _HHMM is free
\*   "taken2"  the title and the title with _HHMM are both taken
\*   "update"  the worksheet is created and worksheet.update raises
WriteOutcomes == {"ok", "open", "add", "taken", "taken2", "update"}

\* write_structured_data(spreadsheet_id, user_id, json_data) at time now with
\* outcome api: whether it raises, and the sheet title it returns otherwise.
\* The table written and the row log_request appends are not read back.
write_structured_data(user_id, json_data, now, api) ==
    LET base_name   == resolve_patient_name(json_data)
        sheet_title == base_name \o <<"_", now.date>>
        with_hhmm   == sheet_title \o <<"_", now.hhmm>>
    IN  [raised      |-> api \in {"open", "add", "taken2", "update"},
         sheet_title |-> IF api \in {"taken", "taken2"} THEN with_hhmm ELSE sheet_title]

---------------------------------------------------------------------------
(* The messages users send.  Every flow keyword and confirmation word of    *)
(* the code is sent, with and without surrounding spaces or capitals.       *)
(* While a questionnaire is being filled the user sends a flow keyword or   *)
(* one of a few answer texts; in every other position, any text of Texts.   *)

\* answers given to the registration questions
RegisterAnswerTexts == {<<"A">>, <<"B">>}

\* answers given to the consultation questions ("" is a blank message)
ConsultAnswerTexts == {<<"A">>, <<SP>>}

\* edit requests: 氏名 B, the same with two spaces, the raw identifier, an
\* unknown item
EditTexts == { <<"ja:shimei", SP, "B">>, <<"ja:shimei", SP, SP, "B">>,
               <<"patient_name", SP, "B">>, <<"ja:zzz", SP, "B">> }

FlowTexts == CANCEL_WORDS \cup REGISTER_WORDS \cup CONSULT_WORDS
                 \cup {<<SP, "ja:chuushi", SP>>}

Texts == FlowTexts \cup YES_WORDS \cup NO_WORDS \cup {<<"OK">>, <<"Yes", SP>>, <<"No">>}
             \cup RegisterAnswerTexts \cup ConsultAnswerTexts \cup EditTexts

\* the texts a user sends to a session in state ses
UserTexts(ses) ==
    IF ses.phase = "None" /\ ses.mode = "register" THEN FlowTexts \cup RegisterAnswerTexts
    ELSE IF ses.phase = "None" /\ ses.mode = "consult" THEN FlowTexts \cup ConsultAnswerTexts
    ELSE Texts

---------------------------------------------------------------------------
(* app.py handle_message *)

\* the default session of line 172
NewSession ==
    [mode |-> "None", step |-> 0, answers |-> EmptyAnswers, phase |-> "None", retry |-> 0]

\* ses = user_sessions.get(user_id) or {...}
session_of(user_id) ==
    IF user_id \in DOMAIN user_sessions THEN user_sessions[user_id] ELSE NewSession

\* the keyword test without the registration keywords
is_flow_word_no_register(text) == text \in CANCEL_WORDS \cup CONSULT_WORDS

\* the keywords tested before the session state (lines 182-193)
is_flow_word(text) == text \in CANCEL_WORDS \cup REGISTER_WORDS \cup CONSULT_WORDS

\* lower in ["はい", "ok", "yes", "はい。", "うん"]
is_yes(text) == lower(text) \in YES_WORDS

\* lower in ["いいえ", "no", "いや", "変更", "修正"]
is_no(text) == lower(text) \in NO_WORDS

\* a restart of the questionnaire that keeps the answers
start_register_keeps(ses) ==
    [ses EXCEPT !.mode = "register", !.step = 0, !.phase = "None", !.retry = 0]

\* ses.update({"mode": "register", "step": 0, "answers": {}, "phase": None, "retry": 0})
start_register(ses) ==
    [ses EXCEPT !.mode = "register", !.step = 0, !.answers = EmptyAnswers,
                !.phase = "None", !.retry = 0]

\* a re-confirmation that keeps the answers
start_reconfirm_keeps(ses) ==
    [ses EXCEPT !.mode = "register", !.step = 0, !.phase = "confirm_register",
                !.retry = 0]

\* ses.update({"mode": "register", "step": 0, "phase": "confirm_register", "retry": 0, "answers": {}})
start_reconfirm(ses) ==
    [ses EXCEPT !.mode = "register", !.step = 0, !.phase = "confirm_register",
                !.retry = 0, !.answers = EmptyAnswers]

\* a start of the consultation that keeps the phase
start_consult_phase(ses) ==
    [ses EXCEPT !.mode = "consult", !.step = 0, !.retry = 0, !.answers = EmptyAnswers]

\* a start of the consultation that keeps the answers
start_consult_keeps(ses) ==
    [ses EXCEPT !.mode = "consult", !.step = 0, !.phase = "None", !.retry = 0]

\* ses.update({"mode": "consult", "step": 0, "phase": None, "retry": 0, "answers": {}})
start_consult(ses) ==
    [ses EXCEPT !.mode = "consult", !.step = 0, !.phase = "None", !.retry = 0,
                !.answers = EmptyAnswers]

\* ses.update({"mode": "register", "step": 0, "phase": None})
restart_register(ses) ==
    [ses EXCEPT !.mode = "register", !.step = 0, !.phase = "None"]

\* the class of a message text, by the keyword lists in the order the
\* handler consults them
kind_of(text) ==
    IF text \in CANCEL_WORDS THEN "cancel"
    ELSE IF text \in REGISTER_WORDS THEN "register"
    ELSE IF text \in CONSULT_WORDS THEN "consult"
    ELSE IF lower(text) \in YES_WORDS THEN "yes"
    ELSE IF lower(text) \in NO_WORDS THEN "no"
    ELSE "other"

\* the event handled: the sender, the class of the text, the session it
\* met (stored: whether the user had one) and how many texts of class
\* "other" the user has now sent in a row to a confirmation prompt
received(user_id, raw) ==
    LET ses  == session_of(user_id)
        kind == kind_of(strip(raw))
    IN  [user_id |-> user_id, kind |-> kind,
         stored |-> user_id \in DOMAIN user_sessions,
         mode |-> ses.mode, phase |-> ses.phase, retry |-> ses.retry,
         others |-> IF kind = "other"
                       /\ ses.phase \in {"confirm_register", "confirm_consult"}
                    THEN (IF event.user_id = user_id THEN event.others ELSE 0) + 1
                    ELSE 0]

\* callback (lines 151-161): return "OK", 200 on both of its paths
OK == "OK"

\* what handling a message sends (safe_reply) and calls, and what callback
\* returns once handler.handle is over
Handled(user_id, raw, out, made) ==
    /\ event' = received(user_id, raw)
    /\ replies' = out
    /\ calls' = made
    /\ response' = OK
    /\ UNCHANGED <<inflight, applied>>

\* lines 182-185: cancel
Cancel(user_id, raw) ==
    LET text == strip(raw)
        ses  == session_of(user_id)
    IN
    /\ text \in CANCEL_WORDS
    /\ user_sessions' = pop(store(user_sessions, user_id, ses), user_id)
    /\ Handled(user_id, raw, <<MSG_CANCELLED>>, <<>>)
    /\ UNCHANGED members

\* lines 188-191: start of the registration flow
StartRegister(user_id, raw) ==
    LET text == strip(raw)
        ses  == session_of(user_id)
    IN
    /\ text \notin CANCEL_WORDS
    /\ text \in REGISTER_WORDS
    /\ user_sessions' = store(user_sessions, user_id, start_register(ses))
    /\ Handled(user_id, raw, <<MsgQuestion(REGISTER_QUESTIONS[1])>>, <<>>)
    /\ UNCHANGED members

\* lines 193-198: consultation asked by a user the lookup does not find
StartConsultUnregistered(user_id, raw) ==
    LET text == strip(raw)
        ses  == session_of(user_id)
    IN
    /\ text \notin CANCEL_WORDS \cup REGISTER_WORDS
    /\ text \in CONSULT_WORDS
    /\ \E api_ok \in BOOLEAN :
         /\ ~is_user_registered(user_id, api_ok)
         /\ user_sessions' = store(user_sessions, user_id, start_register(ses))
         /\ Handled(user_id, raw,
                    <<MSG_REDIRECT, MsgQuestion(REGISTER_QUESTIONS[1])>>,
                    << <<"is_user_registered", <<user_id>>, FALSE>> >>)
    /\ UNCHANGED members

\* lines 193-204: consultation asked by a user the lookup finds
StartConsultRegistered(user_id, raw) ==
    LET text == strip(raw)
        ses  == session_of(user_id)
    IN
    /\ text \notin CANCEL_WORDS \cup REGISTER_WORDS
    /\ text \in CONSULT_WORDS
    /\ is_user_registered(user_id, TRUE)
    /\ \E info_ok \in BOOLEAN :
         LET mi == get_member_info(user_id, info_ok) IN
         /\ user_sessions' = store(user_sessions, user_id, start_reconfirm(ses))
         /\ Handled(user_id, raw, <<MsgMemberConfirm(mi)>>,
                    << <<"is_user_registered", <<user_id>>, TRUE>>,
                       <<"get_member_info", <<user_id>>, mi>> >>)
    /\ UNCHANGED members

\* lines 207-221: an answer to a registration question
RegisterInput(user_id, raw) ==
    LET text    == strip(raw)
        ses     == session_of(user_id)
        q       == REGISTER_QUESTIONS[ses.step + 1]
        answers == put(ses.answers, q.field, text)
    IN
    /\ ~is_flow_word(text)
    /\ ses.mode = "register" /\ ses.phase = "None"
    /\ IF ses.step + 1 < Len(REGISTER_QUESTIONS)
       THEN /\ user_sessions' = store(user_sessions, user_id,
                   [ses EXCEPT !.answers = answers, !.step = ses.step + 1])
            /\ Handled(user_id, raw,
                       <<MsgQuestion(REGISTER_QUESTIONS[ses.step + 2])>>, <<>>)
       ELSE /\ user_sessions' = store(user_sessions, user_id,
                   [ses EXCEPT !.answers = answers, !.phase = "confirm_register",
                               !.retry = 0])
            /\ Handled(user_id, raw, <<format_register_preview(answers)>>, <<>>)
    /\ UNCHANGED members

\* the bound tested with > in place of >=
retry_exhausted_late(ses) == ses.retry + 1 > MAX_CONFIRM_RETRIES

\* lines 251-255, 263-267, 305-309, 315-319: ses["retry"] += 1 and the bound
retry_exhausted(ses) == ses.retry + 1 >= MAX_CONFIRM_RETRIES

\* lines 224-248: yes to the registration preview
ConfirmRegisterYes(user_id, raw) ==
    LET text == strip(raw)
        ses  == session_of(user_id)
        row  == member_row(user_id, get(ses.answers, "office"),
                           get(ses.answers, "address"), get(ses.answers, "role"),
                           get(ses.answers, "name"))
        next == store(user_sessions, user_id, start_consult(ses))
    IN
    /\ ~is_flow_word(text)
    /\ ~(ses.mode = "register" /\ ses.phase = "None")
    /\ ses.phase = "confirm_register"
    /\ is_yes(text)
    /\ IF ses.mode = "register" /\ DOMAIN ses.answers # {}
       THEN \E api_ok \in BOOLEAN :
              IF api_ok
              THEN /\ members' = register_user(user_id, row.office, row.address,
                                               row.role, row.name)
                   /\ user_sessions' = next
                   /\ Handled(user_id, raw,
                              <<MSG_REGISTERED, MsgQuestion(CONSULT_QUESTIONS[1])>>,
                              << <<"register_user", row, "ok">> >>)
              ELSE /\ members' = members
                   /\ user_sessions' = pop(store(user_sessions, user_id, ses), user_id)
                   /\ Handled(user_id, raw, <<MSG_ESCALATION>>,
                              << <<"register_user", row, "raised">> >>)
       ELSE /\ members' = members
            /\ user_sessions' = next
            /\ Handled(user_id, raw, <<MsgQuestion(CONSULT_QUESTIONS[1])>>, <<>>)

\* no to the registration preview, where the no that reaches the bound
\* escalates and leaves the session in the store
ConfirmRegisterNo_keeps(user_id, raw) ==
    LET text == strip(raw)
        ses  == session_of(user_id)
    IN
    /\ ~is_flow_word(text)
    /\ ~(ses.mode = "register" /\ ses.phase = "None")
    /\ ses.phase = "confirm_register"
    /\ ~is_yes(text) /\ is_no(text)
    /\ IF retry_exhausted(ses)
       THEN /\ user_sessions' = store(user_sessions, user_id,
                   [ses EXCEPT !.retry = ses.retry + 1])
            /\ Handled(user_id, raw, <<MSG_ESCALATION>>, <<>>)
       ELSE /\ user_sessions' = store(user_sessions, user_id,
                   restart_register([ses EXCEPT !.retry = ses.retry + 1]))
            /\ Handled(user_id, raw,
                       <<MSG_RESTART, MsgQuestion(REGISTER_QUESTIONS[1])>>, <<>>)
    /\ UNCHANGED members

\* lines 250-260: no to the registration preview
ConfirmRegisterNo(user_id, raw) ==
    LET text == strip(raw)
        ses  == session_of(user_id)
    IN
    /\ ~is_flow_word(text)
    /\ ~(ses.mode = "register" /\ ses.phase = "None")
    /\ ses.phase = "confirm_register"
    /\ ~is_yes(text) /\ is_no(text)
    /\ IF retry_exhausted(ses)
       THEN /\ user_sessions' = pop(store(user_sessions, user_id, ses), user_id)
            /\ Handled(user_id, raw, <<MSG_ESCALATION>>, <<>>)
       ELSE /\ user_sessions' = store(user_sessions, user_id,
                   restart_register([ses EXCEPT !.retry = ses.retry + 1]))
            /\ Handled(user_id, raw,
                       <<MSG_RESTART, MsgQuestion(REGISTER_QUESTIONS[1])>>, <<>>)
    /\ UNCHANGED members

\* lines 262-269: any other text to the registration preview
ConfirmRegisterOther(user_id, raw) ==
    LET text == strip(raw)
        ses  == session_of(user_id)
    IN
    /\ ~is_flow_word(text)
    /\ ~(ses.mode = "register" /\ ses.phase = "None")
    /\ ses.phase = "confirm_register"
    /\ ~is_yes(text) /\ ~is_no(text)
    /\ IF retry_exhausted(ses)
       THEN /\ user_sessions' = pop(store(user_sessions, user_id, ses), user_id)
            /\ Handled(user_id, raw, <<MSG_ESCALATION>>, <<>>)
       ELSE /\ user_sessions' = store(user_sessions, user_id,
                   [ses EXCEPT !.retry = ses.retry + 1])
            /\ Handled(user_id, raw, <<MSG_YES_OR_NO>>, <<>>)
    /\ UNCHANGED members

\* none of the branches of lines 182-269 takes the message
past_register(ses, text) ==
    /\ ~is_flow_word(text)
    /\ ~(ses.mode = "register" /\ ses.phase = "None")
    /\ ses.phase # "confirm_register"

\* an answer to a consultation question that moves step on at the last
\* question as well
ConsultInput_overruns(user_id, raw) ==
    LET text    == strip(raw)
        ses     == session_of(user_id)
        q       == CONSULT_QUESTIONS[ses.step + 1]
        answers == put(ses.answers, q.field, text)
    IN
    /\ past_register(ses, text)
    /\ ses.mode = "consult" /\ ses.phase = "None"
    /\ IF ses.step + 1 < Len(CONSULT_QUESTIONS)
       THEN /\ user_sessions' = store(user_sessions, user_id,
                   [ses EXCEPT !.answers = answers, !.step = ses.step + 1])
            /\ Handled(user_id, raw,
                       <<MsgQuestion(CONSULT_QUESTIONS[ses.step + 2])>>, <<>>)
       ELSE /\ user_sessions' = store(user_sessions, user_id,
                   [ses EXCEPT !.answers = answers, !.step = ses.step + 1,
                               !.phase = "confirm_consult", !.retry = 0])
            /\ Handled(user_id, raw, <<format_consult_preview(answers)>>, <<>>)
    /\ UNCHANGED members

\* lines 272-286: an answer to a consultation question
ConsultInput(user_id, raw) ==
    LET text    == strip(raw)
        ses     == session_of(user_id)
        q       == CONSULT_QUESTIONS[ses.step + 1]
        answers == put(ses.answers, q.field, text)
    IN
    /\ past_register(ses, text)
    /\ ses.mode = "consult" /\ ses.phase = "None"
    /\ IF ses.step + 1 < Len(CONSULT_QUESTIONS)
       THEN /\ user_sessions' = store(user_sessions, user_id,
                   [ses EXCEPT !.answers = answers, !.step = ses.step + 1])
            /\ Handled(user_id, raw,
                       <<MsgQuestion(CONSULT_QUESTIONS[ses.step + 2])>>, <<>>)
       ELSE /\ user_sessions' = store(user_sessions, user_id,
                   [ses EXCEPT !.answers = answers, !.phase = "confirm_consult",
                               !.retry = 0])
            /\ Handled(user_id, raw, <<format_consult_preview(answers)>>, <<>>)
    /\ UNCHANGED members

\* a yes to the consultation preview that keeps the session when the write
\* raises
ConfirmConsultYes_keeps(user_id, raw) ==
    LET text == strip(raw)
        ses  == session_of(user_id)
        data == answers_to_structured_json(ses.answers)
    IN
    /\ past_register(ses, text)
    /\ ~(ses.mode = "consult" /\ ses.phase = "None")
    /\ ses.phase = "confirm_consult"
    /\ is_yes(text)
    /\ \E now \in Clock, api \in WriteOutcomes :
         LET w == write_structured_data(user_id, data, now, api) IN
         /\ user_sessions' = IF w.raised THEN store(user_sessions, user_id, ses)
                              ELSE pop(store(user_sessions, user_id, ses), user_id)
         /\ Handled(user_id, raw,
                    IF w.raised THEN <<MSG_ESCALATION>>
                    ELSE <<MsgRecorded(w.sheet_title)>>,
                    << <<"write_structured_data", data,
                         [raised |-> w.raised, sheet_title |-> w.sheet_title]>> >>)
    /\ UNCHANGED members

\* lines 289-302: yes to the consultation preview
ConfirmConsultYes(user_id, raw) ==
    LET text == strip(raw)
        ses  == session_of(user_id)
        data == answers_to_structured_json(ses.answers)
    IN
    /\ past_register(ses, text)
    /\ ~(ses.mode = "consult" /\ ses.phase = "None")
    /\ ses.phase = "confirm_consult"
    /\ is_yes(text)
    /\ \E now \in Clock, api \in WriteOutcomes :
         LET w == write_structured_data(user_id, data, now, api) IN
         /\ user_sessions' = pop(store(user_sessions, user_id, ses), user_id)
         /\ Handled(user_id, raw,
                    IF w.raised THEN <<MSG_ESCALATION>>
                    ELSE <<MsgRecorded(w.sheet_title)>>,
                    << <<"write_structured_data", data,
                         [raised |-> w.raised, sheet_title |-> w.sheet_title]>> >>)
    /\ UNCHANGED members

\* lines 304-312: no to the consultation preview
ConfirmConsultNo(user_id, raw) ==
    LET text == strip(raw)
        ses  == session_of(user_id)
    IN
    /\ past_register(ses, text)
    /\ ~(ses.mode = "consult" /\ ses.phase = "None")
    /\ ses.phase = "confirm_consult"
    /\ ~is_yes(text) /\ is_no(text)
    /\ IF retry_exhausted(ses)
       THEN /\ user_sessions' = pop(store(user_sessions, user_id, ses), user_id)
            /\ Handled(user_id, raw, <<MSG_ESCALATION>>, <<>>)
       ELSE /\ user_sessions' = store(user_sessions, user_id,
                   [ses EXCEPT !.retry = ses.retry + 1, !.phase = "edit_consult"])
            /\ Handled(user_id, raw, <<MSG_EDIT_HOWTO>>, <<>>)
    /\ UNCHANGED members

\* lines 314-321: any other text to the consultation preview
ConfirmConsultOther(user_id, raw) ==
    LET text == strip(raw)
        ses  == session_of(user_id)
    IN
    /\ past_register(ses, text)
    /\ ~(ses.mode = "consult" /\ ses.phase = "None")
    /\ ses.phase = "confirm_consult"
    /\ ~is_yes(text) /\ ~is_no(text)
    /\ IF retry_exhausted(ses)
       THEN /\ user_sessions' = pop(store(user_sessions, user_id, ses), user_id)
            /\ Handled(user_id, raw, <<MSG_ESCALATION>>, <<>>)
       ELSE /\ user_sessions' = store(user_sessions, user_id,
                   [ses EXCEPT !.retry = ses.retry + 1])
            /\ Handled(user_id, raw, <<MSG_YES_OR_NO>>, <<>>)
    /\ UNCHANGED members

\* none of the branches of lines 182-321 takes the message
past_consult(ses, text) ==
    /\ past_register(ses, text)
    /\ ~(ses.mode = "consult" /\ ses.phase = "None")
    /\ ses.phase # "confirm_consult"

\* a lookup that takes the text before the space as the field itself
mapped_key_raw(key) == key

\* inv_map.get(key, key) with inv_map = {v: k for k, v in _LABEL_MAP.items()}
mapped_key(key) ==
    IF \E k \in DOMAIN LABEL_MAP : LABEL_MAP[k] = key
    THEN CHOOSE k \in DOMAIN LABEL_MAP : LABEL_MAP[k] = key
    ELSE key

\* a correction that counts a rejected request as a retry
EditConsult_counts(user_id, raw) ==
    LET text  == strip(raw)
        ses   == session_of(user_id)
        key   == split(text).key
        value == strip(split(text).value)
        field == mapped_key(key[1])
        answers == put(ses.answers, field, value)
        again == [ses EXCEPT !.retry = ses.retry + 1]
    IN
    /\ past_consult(ses, text)
    /\ ses.phase = "edit_consult"
    /\ IF has_space(text)
       THEN IF field \in DOMAIN ses.answers
            THEN /\ user_sessions' = store(user_sessions, user_id,
                        [ses EXCEPT !.answers = answers, !.phase = "confirm_consult",
                                    !.retry = 0])
                 /\ Handled(user_id, raw,
                            <<MsgEdited(key, value), format_consult_preview(answers)>>,
                            <<>>)
            ELSE /\ user_sessions' = store(user_sessions, user_id, again)
                 /\ Handled(user_id, raw, <<MsgNotFound(key)>>, <<>>)
       ELSE /\ user_sessions' = store(user_sessions, user_id, again)
            /\ Handled(user_id, raw, <<MSG_EDIT_FORMAT>>, <<>>)
    /\ UNCHANGED members

\* a correction that stores the value under whatever item the text names
EditConsult_adds(user_id, raw) ==
    LET text  == strip(raw)
        ses   == session_of(user_id)
        key   == split(text).key
        value == strip(split(text).value)
        field == mapped_key(key[1])
        answers == put(ses.answers, field, value)
    IN
    /\ past_consult(ses, text)
    /\ ses.phase = "edit_consult"
    /\ IF has_space(text)
       THEN /\ user_sessions' = store(user_sessions, user_id,
                   [ses EXCEPT !.answers = answers, !.phase = "confirm_consult",
                               !.retry = 0])
            /\ Handled(user_id, raw,
                       <<MsgEdited(key, value), format_consult_preview(answers)>>,
                       <<>>)
       ELSE /\ user_sessions' = store(user_sessions, user_id, ses)
            /\ Handled(user_id, raw, <<MSG_EDIT_FORMAT>>, <<>>)
    /\ UNCHANGED members

\* lines 324-342: a correction of one consultation answer
EditConsult(user_id, raw) ==
    LET text  == strip(raw)
        ses   == session_of(user_id)
        key   == split(text).key
        value == strip(split(text).value)
        field == mapped_key(key[1])
        answers == put(ses.answers, field, value)
    IN
    /\ past_consult(ses, text)
    /\ ses.phase = "edit_consult"
    /\ IF has_space(text)
       THEN IF field \in DOMAIN ses.answers
            THEN /\ user_sessions' = store(user_sessions, user_id,
                        [ses EXCEPT !.answers = answers, !.phase = "confirm_consult",
                                    !.retry = 0])
                 /\ Handled(user_id, raw,
                            <<MsgEdited(key, value), format_consult_preview(answers)>>,
                            <<>>)
            ELSE /\ user_sessions' = store(user_sessions, user_id, ses)
                 /\ Handled(user_id, raw, <<MsgNotFound(key)>>, <<>>)
       ELSE /\ user_sessions' = store(user_sessions, user_id, ses)
            /\ Handled(user_id, raw, <<MSG_EDIT_FORMAT>>, <<>>)
    /\ UNCHANGED members

\* a menu that advances the step of the session
Default_steps(user_id, raw) ==
    LET text == strip(raw)
        ses  == session_of(user_id)
    IN
    /\ past_consult(ses, text)
    /\ ses.phase # "edit_consult"
    /\ user_sessions' = store(user_sessions, user_id, [ses EXCEPT !.step = ses.step + 1])
    /\ Handled(user_id, raw, <<MSG_MENU>>, <<>>)
    /\ UNCHANGED members

\* lines 344-351: the command menu
Default(user_id, raw) ==
    LET text == strip(raw)
        ses  == session_of(user_id)
    IN
    /\ past_consult(ses, text)
    /\ ses.phase # "edit_consult"
    /\ user_sessions' = store(user_sessions, user_id, ses)
    /\ Handled(user_id, raw, <<MSG_MENU>>, <<>>)
    /\ UNCHANGED members

\* an except clause that also drops the session
Unhandled_pops(user_id, raw) ==
    /\ user_sessions' = pop(user_sessions, user_id)
    /\ event' = [received(user_id, raw) EXCEPT
                    !.kind = "raised",
                    !.others = IF event.user_id = user_id THEN event.others ELSE 0]
    /\ replies' = <<MSG_ESCALATION>>
    /\ calls' = <<>>
    /\ response' = OK
    /\ UNCHANGED <<members, inflight, applied>>

\* lines 353-355: an exception raised in the try block outside the two
\* guarded collaborator calls.  The catalogs are loaded and every question
\* has its keys, so no statement that follows a change of the session
\* raises; the exception comes while the event is read (lines 169-170,
\* before the session is looked up) or after the session is stored (line
\* 179) and before any branch changes it.  The except clause sends the
\* escalation message and returns; callback returns "OK".
Unhandled(user_id, raw) ==
    /\ \E after_store \in BOOLEAN :
         user_sessions' = IF after_store
                          THEN store(user_sessions, user_id, session_of(user_id))
                          ELSE user_sessions
    /\ event' = [received(user_id, raw) EXCEPT
                    !.kind = "raised",
                    !.others = IF event.user_id = user_id THEN event.others ELSE 0]
    /\ replies' = <<MSG_ESCALATION>>
    /\ calls' = <<>>
    /\ response' = OK
    /\ UNCHANGED <<members, inflight, applied>>

\* the try block of handle_message(event) for the text message raw of user_id
handle_message(user_id, raw) ==
    \/ Cancel(user_id, raw)
    \/ StartRegister(user_id, raw)
    \/ StartConsultUnregistered(user_id, raw)
    \/ StartConsultRegistered(user_id, raw)
    \/ RegisterInput(user_id, raw)
    \/ ConfirmRegisterYes(user_id, raw)
    \/ ConfirmRegisterNo(user_id, raw)
    \/ ConfirmRegisterOther(user_id, raw)
    \/ ConsultInput(user_id, raw)
    \/ ConfirmConsultYes(user_id, raw)
    \/ ConfirmConsultNo(user_id, raw)
    \/ ConfirmConsultOther(user_id, raw)
    \/ EditConsult(user_id, raw)
    \/ Default(user_id, raw)

---------------------------------------------------------------------------
(* The specification *)

\* nothing is applied on its own
NotApplied == [fn |-> "", questions |-> <<>>, answers |-> EmptyAnswers]

\* no session, an empty members sheet, no message handled yet
Init ==
    /\ user_sessions = [u \in {} |-> NewSession]
    /\ members = [u \in {} |-> member_row(u, <<>>, <<>>, <<>>, <<>>)]
    /\ event = [user_id |-> "", kind |-> "", stored |-> FALSE, mode |-> "None",
                phase |-> "None", retry |-> 0, others |-> 0]
    /\ replies = <<>>
    /\ calls = <<>>
    /\ response = ""
    /\ inflight = [t \in Threads |-> None]
    /\ applied = NotApplied

\* the messages user_id may send now
Sent(user_id) == UserTexts(session_of(user_id))

Next ==
    \/ \E user_id \in Users : \E raw \in Sent(user_id) : Cancel(user_id, raw)
    \/ \E user_id \in Users : \E raw \in Sent(user_id) : StartRegister(user_id, raw)
    \/ \E user_id \in Users : \E raw \in Sent(user_id) : StartConsultUnregistered(user_id, raw)
    \/ \E user_id \in Users : \E raw \in Sent(user_id) : StartConsultRegistered(user_id, raw)
    \/ \E user_id \in Users : \E raw \in Sent(user_id) : RegisterInput(user_id, raw)
    \/ \E user_id \in Users : \E raw \in Sent(user_id) : ConfirmRegisterYes(user_id, raw)
    \/ \E user_id \in Users : \E raw \in Sent(user_id) : ConfirmRegisterNo(user_id, raw)
    \/ \E user_id \in Users : \E raw \in Sent(user_id) : ConfirmRegisterOther(user_id, raw)
    \/ \E user_id \in Users : \E raw \in Sent(user_id) : ConsultInput(user_id, raw)
    \/ \E user_id \in Users : \E raw \in Sent(user_id) : ConfirmConsultYes(user_id, raw)
    \/ \E user_id \in Users : \E raw \in Sent(user_id) : ConfirmConsultNo(user_id, raw)
    \/ \E user_id \in Users : \E raw \in Sent(user_id) : ConfirmConsultOther(user_id, raw)
    \/ \E user_id \in Users : \E raw \in Sent(user_id) : EditConsult(user_id, raw)
    \/ \E user_id \in Users : \E raw \in Sent(user_id) : Default(user_id, raw)
    \/ \E user_id \in Users : \E raw \in Sent(user_id) : Unhandled(user_id, raw)

Spec == Init /\ [][Next]_vars

---------------------------------------------------------------------------
(* Deliveries handled at the same time.  handle_message takes no lock and   *)
(* app.run serves each request in a thread of its own, so a delivery can be *)
(* handled while another one waits in a collaborator call (a request to the *)
(* Sheets API).  The two guarded calls are split at the call: Begin runs    *)
(* the handler up to the call, End from its return.  Every other message    *)
(* is handled in one step, while no thread waits.                           *)

\* no thread waits in a collaborator call
Quiet == \A t \in Threads : inflight[t] = None

\* lines 169-293 in thread t: a yes to the consultation preview, up to the
\* call of write_structured_data
BeginWrite(t, user_id, raw) ==
    LET text == strip(raw)
        ses  == session_of(user_id)
        data == answers_to_structured_json(ses.answers)
    IN
    /\ inflight[t] = None
    /\ past_register(ses, text)
    /\ ~(ses.mode = "consult" /\ ses.phase = "None")
    /\ ses.phase = "confirm_consult"
    /\ is_yes(text)
    /\ user_sessions' = store(user_sessions, user_id, ses)
    /\ inflight' = [inflight EXCEPT ![t] =
                       <<[user_id |-> user_id, fn |-> "write_structured_data",
                          args |-> data, event |-> received(user_id, raw)]>>]
    /\ UNCHANGED <<members, event, replies, calls, response, applied>>

\* lines 293-302 in thread t: write_structured_data returns or raises
EndWrite(t) ==
    /\ inflight[t] # None
    /\ inflight[t][1].fn = "write_structured_data"
    /\ LET job == inflight[t][1] IN
       \E now \in Clock, api \in WriteOutcomes :
         LET w == write_structured_data(job.user_id, job.args, now, api) IN
         /\ user_sessions' = pop(user_sessions, job.user_id)
         /\ event' = job.event
         /\ replies' = IF w.raised THEN <<MSG_ESCALATION>>
                        ELSE <<MsgRecorded(w.sheet_title)>>
         /\ calls' = << <<"write_structured_data", job.args,
                          [raised |-> w.raised, sheet_title |-> w.sheet_title]>> >>
    /\ response' = OK
    /\ inflight' = [inflight EXCEPT ![t] = None]
    /\ UNCHANGED <<members, applied>>

\* lines 169-237 in thread t: a yes to the registration preview of a session
\* with answers, up to the call of register_user
BeginRegister(t, user_id, raw) ==
    LET text == strip(raw)
        ses  == session_of(user_id)
        row  == member_row(user_id, get(ses.answers, "office"),
                           get(ses.answers, "address"), get(ses.answers, "role"),
                           get(ses.answers, "name"))
    IN
    /\ inflight[t] = None
    /\ ~is_flow_word(text)
    /\ ~(ses.mode = "register" /\ ses.phase = "None")
    /\ ses.phase = "confirm_register"
    /\ is_yes(text)
    /\ ses.mode = "register" /\ DOMAIN ses.answers # {}
    /\ user_sessions' = store(user_sessions, user_id, ses)
    /\ inflight' = [inflight EXCEPT ![t] =
                       <<[user_id |-> user_id, fn |-> "register_user",
                          args |-> row, event |-> received(user_id, raw)]>>]
    /\ UNCHANGED <<members, event, replies, calls, response, applied>>

\* lines 237-248 in thread t: register_user returns or raises.  ses is the
\* dict the thread read at line 172: the update of line 246 shows in the
\* store as long as that dict is still the user's entry.
EndRegister(t) ==
    /\ inflight[t] # None
    /\ inflight[t][1].fn = "register_user"
    /\ LET job == inflight[t][1]
           row == job.args
       IN
       /\ event' = job.event
       /\ \E api_ok \in BOOLEAN :
            IF api_ok
            THEN /\ members' = register_user(job.user_id, row.office, row.address,
                                             row.role, row.name)
                 /\ user_sessions' =
                       IF job.user_id \in DOMAIN user_sessions
                       THEN store(user_sessions, job.user_id,
                                  start_consult(user_sessions[job.user_id]))
                       ELSE user_sessions
                 /\ replies' = <<MSG_REGISTERED, MsgQuestion(CONSULT_QUESTIONS[1])>>
                 /\ calls' = << <<"register_user", row, "ok">> >>
            ELSE /\ members' = members
                 /\ user_sessions' = pop(user_sessions, job.user_id)
                 /\ replies' = <<MSG_ESCALATION>>
                 /\ calls' = << <<"register_user", row, "raised">> >>
    /\ response' = OK
    /\ inflight' = [inflight EXCEPT ![t] = None]
    /\ UNCHANGED applied

NextThreads ==
    \/ Quiet /\ Next
    \/ \E t \in Threads, user_id \in Users : \E raw \in Sent(user_id) :
          BeginWrite(t, user_id, raw)
    \/ \E t \in Threads : EndWrite(t)
    \/ \E t \in Threads, user_id \in Users : \E raw \in Sent(user_id) :
          BeginRegister(t, user_id, raw)
    \/ \E t \in Threads : EndRegister(t)

SpecThreads == Init /\ [][NextThreads]_vars

---------------------------------------------------------------------------
(* The preview and the record as functions of their inputs: the catalog     *)
(* loaded from questions.json and the answers of a session.                 *)

\* field identifiers of the inputs: three of the label table (one of each
\* section of the record) and one that the label table does not have
PureFields == {"patient_name", "onset_date", "key_person_name", "memo"}

\* answer texts of the inputs ("" is an answer left empty)
PureValues == {<<>>, <<"A">>, <<"B">>}

\* the answers mappings: any subset of the fields, each with a text
AnswerMaps == UNION {[S -> PureValues] : S \in SUBSET PureFields}

\* a catalog asking the given fields in the given order
CatalogOf(fields) ==
    [i \in 1..Len(fields) |->
        [field |-> fields[i], question |-> <<"consult-question:", fields[i]>>]]

\* the catalogs loaded
Catalogs ==
    { CatalogOf(<<"patient_name", "onset_date", "key_person_name">>),
      CatalogOf(<<"memo", "key_person_name", "patient_name">>),
      CatalogOf(<<"onset_date", "memo">>) }

\* a catalog is loaded and a session holds some answers
InitPure ==
    /\ user_sessions = [u \in {} |-> NewSession]
    /\ members = [u \in {} |-> member_row(u, <<>>, <<>>, <<>>, <<>>)]
    /\ event = [user_id |-> "", kind |-> "", stored |-> FALSE, mode |-> "None",
                phase |-> "None", retry |-> 0, others |-> 0]
    /\ replies = <<>>
    /\ calls = <<>>
    /\ response = ""
    /\ inflight = [t \in Threads |-> None]
    /\ \E questions \in Catalogs, answers \in AnswerMaps :
         applied = [fn |-> "", questions |-> questions, answers |-> answers]

\* _format_consult_preview(answers) is sent
ApplyPreview ==
    /\ applied.fn = ""
    /\ applied' = [applied EXCEPT !.fn = "_format_consult_preview"]
    /\ replies' = <<format_consult_preview_of(applied.questions, applied.answers)>>
    /\ UNCHANGED <<user_sessions, members, event, calls, response, inflight>>

\* _answers_to_structured_json(answers) is handed to write_structured_data
ApplyRecord ==
    /\ applied.fn = ""
    /\ applied' = [applied EXCEPT !.fn = "_answers_to_structured_json"]
    /\ calls' = << <<"write_structured_data",
                     answers_to_structured_json(applied.answers), <<>> >> >>
    /\ UNCHANGED <<user_sessions, members, event, replies, response, inflight>>

NextPure == ApplyPreview \/ ApplyRecord

SpecPure == InitPure /\ [][NextPure]_vars

---------------------------------------------------------------------------
(* Properties *)

\* the session record with the given fields
Session(mode, step, answers, phase, retry) ==
    [mode |-> mode, step |-> step, answers |-> answers, phase |-> phase, retry |-> retry]

\* the step handles a message of user u whose text has class kind
Got(u, kind) == event'.user_id = u /\ event'.kind = kind

\* a fresh registration pass: (register, input, step 0, no answers, retry 0)
FreshRegister == Session("register", 0, EmptyAnswers, "None", 0)

\* a fresh consultation pass: (consult, input, step 0, no answers, retry 0)
FreshConsult == Session("consult", 0, EmptyAnswers, "None", 0)

\* C1: a cancellation keyword, in whatever state the user's session is,
\* removes the user's entry from the session store and sends only the
\* acknowledgement; the user's next message is handled as for a user without
\* a session: a text that is no flow keyword gets the command menu, a
\* registration-start or consultation-start keyword starts that flow from
\* step 0 with no answers.
C1_CancelDeletesSession ==
    [][\A u \in Users :
        /\ Got(u, "cancel") =>
              /\ u \notin DOMAIN user_sessions'
              /\ replies' = <<MSG_CANCELLED>>
              /\ calls' = <<>>
              /\ members' = members
        /\ (event.user_id = u /\ event.kind = "cancel" /\ event'.user_id = u) =>
              /\ ~event'.stored
              /\ event'.kind \in {"yes", "no", "other"} =>
                    /\ replies' = <<MSG_MENU>>
                    /\ user_sessions'[u] = Session("None", 0, EmptyAnswers, "None", 0)
              /\ event'.kind = "register" =>
                    /\ replies' = <<MsgQuestion(REGISTER_QUESTIONS[1])>>
                    /\ user_sessions'[u] = FreshRegister
              /\ event'.kind = "consult" =>
                    /\ user_sessions'[u].mode = "register"
                    /\ user_sessions'[u].step = 0
                    /\ user_sessions'[u].answers = EmptyAnswers
                    /\ user_sessions'[u].retry = 0
                    /\ IF user_sessions'[u].phase = "None"
                       THEN replies' = <<MSG_REDIRECT, MsgQuestion(REGISTER_QUESTIONS[1])>>
                       ELSE /\ user_sessions'[u].phase = "confirm_register"
                            /\ Len(replies') = 1
                            /\ replies'[1].kind = "member-confirm"
    ]_vars

\* C1 happens: a cancellation was handled for a user in the middle of a flow
C1_Witness ==
    \E u \in Users :
        /\ event.user_id = u /\ event.kind = "cancel"
        /\ event.stored /\ event.mode = "consult" /\ event.phase = "edit_consult"
        /\ u \notin DOMAIN user_sessions
        /\ replies = <<MSG_CANCELLED>>

\* C2: in either confirm phase, the third text in a row that is neither yes
\* nor no gets the escalation message and deletes the session; the first and
\* the second leave the session in the same confirm phase and get the yes/no
\* re-prompt.
C2_ThirdUnrecognizedEscalates ==
    \A u \in Users :
        (event.user_id = u /\ event.kind = "other" /\ event.others > 0) =>
            IF event.others >= 3
            THEN /\ u \notin DOMAIN user_sessions
                 /\ replies = <<MSG_ESCALATION>>
            ELSE /\ u \in DOMAIN user_sessions
                 /\ event.phase \in {"confirm_register", "confirm_consult"}
                 /\ user_sessions[u].phase = event.phase
                 /\ replies = <<MSG_YES_OR_NO>>

\* C2 happens: a third unrecognized text in a row was sent to a confirm prompt
C2_Witness ==
    \E u \in Users :
        /\ event.user_id = u /\ event.kind = "other" /\ event.others = 3
        /\ event.phase = "confirm_consult"
        /\ u \notin DOMAIN user_sessions
        /\ replies = <<MSG_ESCALATION>>

\* a message shows the text v: one of its lines carries v ("" is in any text)
Shows(msg, v) == v = <<>> \/ \E i \in 1..Len(msg.body) : msg.body[i][2] = v

\* the step answers the last registration question of user u
AnswersLastRegisterQuestion(u) ==
    /\ event'.user_id = u
    /\ event'.kind \in {"yes", "no", "other"}
    /\ u \in DOMAIN user_sessions
    /\ user_sessions[u].mode = "register" /\ user_sessions[u].phase = "None"
    /\ user_sessions[u].step = Len(REGISTER_QUESTIONS) - 1

\* after that step: phase confirm_register, and the only reply is the
\* registration preview, showing the answers to the given fields and ending
\* with the yes/no prompt
PreviewedRegistration(u, fields) ==
    /\ u \in DOMAIN user_sessions
    /\ user_sessions[u].phase = "confirm_register"
    /\ Len(replies) = 1
    /\ replies[1].kind = "register-preview"
    /\ \A f \in fields :
          /\ f \in DOMAIN user_sessions[u].answers
          /\ Shows(replies[1], user_sessions[u].answers[f])
    /\ replies[1].body[Len(replies[1].body)] = PROMPT_REGISTER

\* the fields of the registration catalog
RegisterFields == {REGISTER_QUESTIONS[i].field : i \in 1..Len(REGISTER_QUESTIONS)}

\* C3 as claimed: the message that answers the last question of the
\* registration catalog (five questions) moves the session to confirm_register
\* and is answered by the registration preview, which shows every answered
\* value, all five, and ends with the yes/no prompt.
C3_PreviewShowsAllFive ==
    [][\A u \in Users :
        AnswersLastRegisterQuestion(u) =>
            /\ Len(REGISTER_QUESTIONS) = 5
            /\ PreviewedRegistration(u, RegisterFields)'
    ]_vars

\* C3 amended: the message that answers the last question of the registration
\* catalog moves the session to confirm_register and is answered by the
\* registration preview, which shows the values answered for name, office,
\* address and role and ends with the yes/no prompt.
C3_PreviewShowsFourFields ==
    [][\A u \in Users :
        AnswersLastRegisterQuestion(u) =>
            PreviewedRegistration(u, {"name", "office", "address", "role"})'
    ]_vars

\* C3 happens: the last registration question was answered, after answers
\* that differ from one field to another
C3_Witness ==
    \E u \in Users :
        /\ event.user_id = u /\ event.kind = "other"
        /\ event.mode = "register" /\ event.phase = "None"
        /\ PreviewedRegistration(u, {"name", "office", "address", "role"})
        /\ user_sessions[u].answers["office"] = <<"A">>
        /\ user_sessions[u].answers["role"] = <<"B">>
        /\ user_sessions[u].answers["name"] = <<"B">>
        /\ user_sessions[u].answers["address"] = <<"A">>

\* the outcome of the edit 氏名 B: the answer is B, the phase is
\* confirm_consult, the regenerated preview is sent and shows B under 氏名
EditedToB(u) ==
    /\ u \in DOMAIN user_sessions
    /\ user_sessions[u].answers["patient_name"] = <<"B">>
    /\ user_sessions[u].phase = "confirm_consult"
    /\ Len(replies) > 0
    /\ LET preview == replies[Len(replies)] IN
          /\ preview.kind = "consult-preview"
          /\ \E i \in 1..Len(preview.body) : preview.body[i] = <<"ja:shimei", <<"B">>>>

\* user u, whose session is in the given phase with patient_name = "A",
\* sends 氏名 B
EditsNameFrom(u, phase) ==
    /\ u \in DOMAIN user_sessions
    /\ user_sessions[u].mode = "consult"
    /\ user_sessions[u].phase = phase
    /\ "patient_name" \in DOMAIN user_sessions[u].answers
    /\ user_sessions[u].answers["patient_name"] = <<"A">>
    /\ handle_message(u, <<"ja:shimei", SP, "B">>)

\* C4 as claimed: in phase confirm_consult with patient_name = "A", the
\* single input 氏名 B sets patient_name to "B", leaves the phase
\* confirm_consult and sends a regenerated preview that shows "B".
C4_EditFromConfirm ==
    [][\A u \in Users : EditsNameFrom(u, "confirm_consult") => EditedToB(u)']_vars

\* C4 amended: in phase edit_consult (entered from confirm_consult by a
\* negative reply) with patient_name = "A", the single input 氏名 B sets
\* patient_name to "B", returns the phase to confirm_consult and sends a
\* regenerated preview that shows "B".
C4_EditFromEdit ==
    [][\A u \in Users : EditsNameFrom(u, "edit_consult") => EditedToB(u)']_vars

\* C4 happens: 氏名 B was handled in phase edit_consult
C4_Witness ==
    \E u \in Users :
        /\ event.user_id = u /\ event.phase = "edit_consult"
        /\ replies[1] = MsgEdited(<<"ja:shimei">>, <<"B">>)
        /\ EditedToB(u)

\* the session of the member-info confirmation
Reconfirm == Session("register", 0, EmptyAnswers, "confirm_register", 0)

\* the step handles a consultation-start keyword of u and the membership
\* lookup reports found
ConsultByRegistered(u, found) ==
    /\ Got(u, "consult")
    /\ Len(calls') > 0
    /\ calls'[1] = <<"is_user_registered", <<u>>, found>>

\* the step handles an affirmative reply of u to the member-info confirmation
YesToReconfirm(u) ==
    /\ Got(u, "yes")
    /\ u \in DOMAIN user_sessions
    /\ user_sessions[u] = Reconfirm

\* an affirmative reply to the member-info confirmation starts the
\* consultation and calls no collaborator
ReconfirmedStartsConsult(u) ==
    YesToReconfirm(u) =>
        /\ user_sessions'[u] = FreshConsult
        /\ calls' = <<>>
        /\ members' = members
        /\ replies' = <<MsgQuestion(CONSULT_QUESTIONS[1])>>

\* no reply is a question of a catalog
NoQuestionAsked == \A i \in 1..Len(replies) : replies[i].kind # "question"

\* C5 as claimed: when the membership lookup reports the user registered, a
\* consultation-start keyword sent from any session state puts the session in
\* (register, confirm_register) with no answers and retry 0 and is answered
\* by the stored member info plus the yes/no prompt and by no registration
\* question; an affirmative reply in that state then moves the session to
\* (consult, input, step 0, no answers) without calling register_user.
C5_ReconfirmShowsStoredInfo ==
    [][\A u \in Users :
        /\ ConsultByRegistered(u, TRUE) =>
              /\ user_sessions'[u] = Reconfirm
              /\ u \in DOMAIN members
              /\ replies' = <<MsgMemberConfirm(<<members[u]>>)>>
        /\ ReconfirmedStartsConsult(u)
    ]_vars

\* C5 amended: as claimed, except that the reply is the stored member info
\* when get_member_info returns it and the text "no registration found" when
\* get_member_info returns nothing, in both cases followed by the yes/no
\* prompt.
C5_ReconfirmShowsFetchedInfo ==
    [][\A u \in Users :
        /\ ConsultByRegistered(u, TRUE) =>
              /\ user_sessions'[u] = Reconfirm
              /\ u \in DOMAIN members
              /\ Len(calls') = 2
              /\ calls'[2][1] = "get_member_info"
              /\ calls'[2][3] \in {<<members[u]>>, None}
              /\ replies' = <<MsgMemberConfirm(calls'[2][3])>>
              /\ NoQuestionAsked'
        /\ ReconfirmedStartsConsult(u)
    ]_vars

\* C5 happens: a registered user in the middle of an edit asked for a
\* consultation and was shown the stored row
C5_Witness ==
    \E u \in Users :
        /\ event.user_id = u /\ event.kind = "consult"
        /\ event.mode = "consult" /\ event.phase = "edit_consult"
        /\ u \in DOMAIN members /\ u \in DOMAIN user_sessions
        /\ user_sessions[u] = Reconfirm
        /\ replies = <<MsgMemberConfirm(<<members[u]>>)>>

\* C6: when the membership lookup reports the user not registered, a
\* consultation-start keyword sent from any session state resets the session
\* to (register, input, step 0, no answers, retry 0) and is answered by exactly
\* two messages: the redirect notice, then the first registration question.
C6_UnregisteredRedirected ==
    [][\A u \in Users :
        ConsultByRegistered(u, FALSE) =>
            /\ user_sessions'[u] = FreshRegister
            /\ replies' = <<MSG_REDIRECT, MsgQuestion(REGISTER_QUESTIONS[1])>>
            /\ Len(calls') = 1
            /\ members' = members
    ]_vars

\* C6 happens: a user with no row in members asked for a consultation while
\* confirming a registration
C6_Witness ==
    \E u \in Users :
        /\ event.user_id = u /\ event.kind = "consult" /\ event.stored
        /\ event.mode = "register" /\ event.phase = "confirm_register"
        /\ u \notin DOMAIN members
        /\ user_sessions[u] = FreshRegister
        /\ replies = <<MSG_REDIRECT, MsgQuestion(REGISTER_QUESTIONS[1])>>

\* C7: while a user is idle (no session, or a session of mode None), a text
\* that is no cancel, registration-start or consultation-start keyword is
\* answered by the command menu only and leaves the session with no answers,
\* step 0, mode None and retry 0, however many such texts come in a row.
C7_IdleGetsMenu ==
    [][\A u \in Users :
        (/\ event'.user_id = u
         /\ event'.kind \in {"yes", "no", "other"}
         /\ (u \notin DOMAIN user_sessions \/ user_sessions[u].mode = "None")) =>
            /\ replies' = <<MSG_MENU>>
            /\ calls' = <<>>
            /\ members' = members
            /\ user_sessions'[u] = Session("None", 0, EmptyAnswers, "None", 0)
    ]_vars

\* C7 happens: an idle user with a stored session got the menu again
C7_Witness ==
    \E u \in Users :
        /\ event.user_id = u /\ event.kind = "other"
        /\ event.stored /\ event.mode = "None"
        /\ replies = <<MSG_MENU>>
        /\ user_sessions[u] = Session("None", 0, EmptyAnswers, "None", 0)

\* C8: a registration-start keyword sent in any session state replaces the
\* session by (register, input, step 0, no answers, retry 0) and is answered
\* by the first registration question; the keyword is not stored as an answer
\* and no collaborator is called.
C8_RegisterKeywordRestarts ==
    [][\A u \in Users :
        Got(u, "register") =>
            /\ user_sessions'[u] = FreshRegister
            /\ \A f \in DOMAIN user_sessions'[u].answers :
                  user_sessions'[u].answers[f] \notin REGISTER_WORDS
            /\ replies' = <<MsgQuestion(REGISTER_QUESTIONS[1])>>
            /\ calls' = <<>>
            /\ members' = members
    ]_vars

\* C8 happens: the keyword arrived at the preview of an answered
\* consultation questionnaire
C8_Witness ==
    \E u \in Users :
        /\ event.user_id = u /\ event.kind = "register"
        /\ event.mode = "consult" /\ event.phase = "confirm_consult" /\ event.stored
        /\ user_sessions[u] = FreshRegister
        /\ replies = <<MsgQuestion(REGISTER_QUESTIONS[1])>>

\* the record data holds, under the label of each consultation field of the
\* catalog, the answer given to it ("" when none)
RecordOf(data, answers) ==
    \A i \in 1..Len(CONSULT_QUESTIONS) :
        LET f == CONSULT_QUESTIONS[i].field IN
        \E sec \in {SEC_PATIENT, SEC_MEDICAL, SEC_COORDINATION} :
            /\ sec \in DOMAIN data
            /\ LABEL_MAP[f] \in DOMAIN data[sec]
            /\ data[sec][LABEL_MAP[f]] = get(answers, f)

\* C9: in phase confirm_consult an affirmative text calls
\* write_structured_data exactly once, with the record built from the current
\* answers of the session; when the call succeeds the reply is the completion
\* message naming the returned sheet, and the session is deleted, so that a
\* further affirmative text writes nothing.
C9_YesWritesOnce ==
    [][\A u \in Users :
        /\ (/\ Got(u, "yes")
            /\ u \in DOMAIN user_sessions
            /\ user_sessions[u].phase = "confirm_consult") =>
              /\ Len(calls') = 1
              /\ calls'[1][1] = "write_structured_data"
              /\ RecordOf(calls'[1][2], user_sessions[u].answers)
              /\ u \notin DOMAIN user_sessions'
              /\ ~calls'[1][3].raised =>
                    replies' = <<MsgRecorded(calls'[1][3].sheet_title)>>
        /\ (/\ event.user_id = u /\ event.kind = "yes"
            /\ event.phase = "confirm_consult"
            /\ Got(u, "yes")) =>
              /\ calls' = <<>>
              /\ replies' = <<MSG_MENU>>
    ]_vars

\* C9 happens: a consultation whose name was edited to B was written
C9_Witness ==
    \E u \in Users :
        /\ event.user_id = u /\ event.kind = "yes"
        /\ event.phase = "confirm_consult"
        /\ Len(calls) = 1
        /\ calls[1][1] = "write_structured_data"
        /\ calls[1][2][SEC_PATIENT]["ja:shimei"] = <<"B">>
        /\ calls[1][2][SEC_PATIENT]["ja:furigana"] = <<"A">>
        /\ replies = <<MsgRecorded(<<"B", "_", "20250809">>)>>
        /\ u \notin DOMAIN user_sessions

\* C10: in phase confirm_register an affirmative text calls register_user if
\* and only if the session has answers; when the call succeeds, or is skipped
\* for want of answers, the session becomes (consult, input, step 0, no
\* answers, retry 0) and the first consultation question is sent.
C10_YesRegistersIffAnswers ==
    [][\A u \in Users :
        (/\ Got(u, "yes")
         /\ u \in DOMAIN user_sessions
         /\ user_sessions[u].phase = "confirm_register") =>
            /\ (\E i \in 1..Len(calls') : calls'[i][1] = "register_user")
                   <=> DOMAIN user_sessions[u].answers # {}
            /\ Len(calls') <= 1
            /\ (calls' = <<>> \/ calls'[1][3] = "ok") =>
                  /\ user_sessions'[u] = FreshConsult
                  /\ replies'[Len(replies')] = MsgQuestion(CONSULT_QUESTIONS[1])
    ]_vars

\* C10 happens: a registration with answers was confirmed and written
C10_Witness ==
    \E u \in Users :
        /\ event.user_id = u /\ event.kind = "yes"
        /\ event.phase = "confirm_register"
        /\ Len(calls) = 1
        /\ calls[1][1] = "register_user"
        /\ calls[1][2].name = <<"B">>
        /\ calls[1][3] = "ok"
        /\ user_sessions[u] = FreshConsult
        /\ replies = <<MSG_REGISTERED, MsgQuestion(CONSULT_QUESTIONS[1])>>

\* the collaborator call raised
Failed(call) ==
    IF call[1] = "register_user" THEN call[3] = "raised"
    ELSE call[1] = "write_structured_data" /\ call[3].raised

\* C11: when register_user raises on a yes in confirm_register, or
\* write_structured_data raises on a yes in confirm_consult, the only reply is
\* the escalation message, the session of the user is deleted and the call is
\* made once for that message.
C11_FailureEscalatesOnce ==
    [][\A u \in Users :
        (/\ Got(u, "yes")
         /\ u \in DOMAIN user_sessions
         /\ user_sessions[u].phase \in {"confirm_register", "confirm_consult"}
         /\ Len(calls') > 0
         /\ Failed(calls'[1])) =>
            /\ replies' = <<MSG_ESCALATION>>
            /\ u \notin DOMAIN user_sessions'
            /\ Len(calls') = 1
            /\ members' = members
    ]_vars

\* C11 happens: write_structured_data raised because the sheet title and the
\* title with the time were both taken
C11_Witness ==
    \E u \in Users :
        /\ event.user_id = u /\ event.kind = "yes"
        /\ event.phase = "confirm_consult"
        /\ Len(calls) = 1
        /\ calls[1][1] = "write_structured_data"
        /\ calls[1][3].raised
        /\ calls[1][3].sheet_title = <<"A", "_", "20250809", "_", "1430">>
        /\ replies = <<MSG_ESCALATION>>
        /\ u \notin DOMAIN user_sessions

\* C12 as claimed: in confirm_register a no that leaves the incremented retry
\* counter below MAX_CONFIRM_RETRIES resets the session to (register, input,
\* step 0) with none of the answers of the rejected pass left in it, and the
\* replies are the restart notice, then the first registration question.
C12_NoRestartsWithNothingKept ==
    [][\A u \in Users :
        (/\ Got(u, "no")
         /\ u \in DOMAIN user_sessions
         /\ user_sessions[u].phase = "confirm_register"
         /\ user_sessions[u].retry + 1 < MAX_CONFIRM_RETRIES) =>
            /\ user_sessions'[u].mode = "register"
            /\ user_sessions'[u].phase = "None"
            /\ user_sessions'[u].step = 0
            /\ user_sessions'[u].answers = EmptyAnswers
            /\ replies' = <<MSG_RESTART, MsgQuestion(REGISTER_QUESTIONS[1])>>
    ]_vars

\* C13 as claimed: a session in an input phase at step 0 (a questionnaire pass
\* that has just begun) has retry = 0.
C13_NewPassHasRetryZero ==
    \A u \in DOMAIN user_sessions :
        (/\ user_sessions[u].mode \in {"register", "consult"}
         /\ user_sessions[u].phase = "None"
         /\ user_sessions[u].step = 0) =>
            user_sessions[u].retry = 0

\* C14: an exception raised while a message is handled, outside the two
\* guarded collaborator calls, does not leave the handler: the escalation
\* message is sent, the session of the user is not deleted and stays as it
\* was (a user without a session has none, or the default one), no
\* collaborator is called and callback returns its acknowledgement.
C14_UnhandledKeepsSession ==
    [][\A u \in Users :
        Got(u, "raised") =>
            /\ replies' = <<MSG_ESCALATION>>
            /\ calls' = <<>>
            /\ members' = members
            /\ response' = OK
            /\ IF u \in DOMAIN user_sessions
               THEN /\ u \in DOMAIN user_sessions'
                    /\ user_sessions'[u] = user_sessions[u]
               ELSE \/ u \notin DOMAIN user_sessions'
                    \/ user_sessions'[u] = Session("None", 0, EmptyAnswers, "None", 0)
    ]_vars

\* C14 happens: the exception came while a user was correcting a
\* consultation, and the session is still there after the escalation
C14_Witness ==
    \E u \in Users :
        /\ event.user_id = u /\ event.kind = "raised"
        /\ event.stored /\ event.phase = "edit_consult"
        /\ u \in DOMAIN user_sessions
        /\ user_sessions[u].phase = "edit_consult"
        /\ user_sessions[u].answers["patient_name"] = <<"B">>
        /\ replies = <<MSG_ESCALATION>>
        /\ response = OK

\* the threads that are handling a delivery of user u
InFlight(u) == {t \in Threads : inflight[t] # None /\ inflight[t][1].user_id = u}

\* C15 as claimed: at most one transition is in flight per user, so two
\* deliveries of one user are never handled at the same time and no
\* confirmation has the write or the registration collaborator running twice.
C15_OneInFlightPerUser ==
    \A u \in Users : Cardinality(InFlight(u)) <= 1

\* the positions of the catalog whose answer is not empty
Answered(questions, answers) ==
    {i \in 1..Len(questions) : get(answers, questions[i].field) # <<>>}

\* the 27 field identifiers of the label table
LabelledFields == {LABEL_KEYS[i] : i \in 1..Len(LABEL_KEYS)}

\* the heading a preview line carries for a field: its display label, or the
\* identifier itself when the label table has no such field
Heading(field) == IF field \in LabelledFields THEN LABEL_MAP[field] ELSE field

\* the preview of the catalog and answers applied
PreviewApplied == applied.fn = "_format_consult_preview"

\* C16: for every answers mapping the consultation preview lists, in catalog
\* order, exactly the fields whose answer is not empty, one line each, with
\* the value under the display label of the field, or under the raw field
\* identifier when the label table has no such field; the prompt ends it.
C16_PreviewListsAnswered ==
    PreviewApplied =>
        LET body  == replies[1].body
            shown == Answered(applied.questions, applied.answers)
        IN  /\ Len(replies) = 1
            /\ Len(body) = Cardinality(shown) + 1
            /\ body[Len(body)] = PROMPT_CONSULT
            /\ \A i \in shown :
                  body[Cardinality({k \in shown : k <= i})] =
                      << Heading(applied.questions[i].field),
                         applied.answers[applied.questions[i].field] >>

\* C16 happens: a preview of a catalog with an unlabelled field, an empty
\* answer and a missing answer
C16_Witness ==
    /\ PreviewApplied
    /\ applied.questions = CatalogOf(<<"memo", "key_person_name", "patient_name">>)
    /\ applied.answers = [f \in {"memo", "patient_name", "onset_date"} |->
                             IF f = "memo" THEN <<"B">>
                             ELSE IF f = "patient_name" THEN <<"A">> ELSE <<>>]
    /\ replies[1].body = << <<"memo", <<"B">>>>, <<"ja:shimei", <<"A">>>>, PROMPT_CONSULT >>

\* the record of the answers applied
RecordApplied == applied.fn = "_answers_to_structured_json"

\* the labels of a section of a record
LabelsOf(record, section) == DOMAIN record[section]

\* C17: for every answers mapping the structured record has exactly three
\* sections, with disjoint sets of labels that together are the labels of
\* the 27 fields of the label table; each field is there once, under the
\* label the preview uses for it, with its answer, or "" when it has none.
C17_RecordPartitionsFields ==
    RecordApplied =>
        LET record   == calls[1][2]
            sections == {SEC_PATIENT, SEC_MEDICAL, SEC_COORDINATION}
            labels   == UNION {LabelsOf(record, sec) : sec \in sections}
        IN  /\ DOMAIN record = sections
            /\ Cardinality(sections) = 3
            /\ \A s1, s2 \in sections :
                  s1 # s2 => LabelsOf(record, s1) \cap LabelsOf(record, s2) = {}
            /\ labels = {LABEL_MAP[f] : f \in LabelledFields}
            /\ Cardinality(labels) = 27
            /\ Cardinality(LabelledFields) = 27
            /\ \A f \in LabelledFields :
                  \E sec \in sections :
                      /\ Heading(f) \in LabelsOf(record, sec)
                      /\ record[sec][Heading(f)] =
                            IF f \in DOMAIN applied.answers THEN applied.answers[f]
                            ELSE <<>>

\* C17 happens: a record of answers to a field of each section
C17_Witness ==
    /\ RecordApplied
    /\ DOMAIN applied.answers = {"patient_name", "onset_date", "key_person_name"}
    /\ calls[1][2][SEC_PATIENT]["ja:shimei"] = <<"A">>
    /\ calls[1][2][SEC_MEDICAL]["ja:hasshoubi-hasshounen"] = <<"B">>
    /\ calls[1][2][SEC_COORDINATION]["ja:kii-paason_shimei"] = <<>>
    /\ calls[1][2][SEC_PATIENT]["ja:furigana"] = <<>>

\* the text a user typed, as the handler reads it
Typed(raw) == strip(raw)

\* the part of a text before its first space, and the part after it
Before(text) == SubSeq(text, 1, (CHOOSE i \in 1..Len(text) :
                    text[i] = SP /\ \A j \in 1..(i - 1) : text[j] # SP) - 1)
After(text) == SubSeq(text, (CHOOSE i \in 1..Len(text) :
                    text[i] = SP /\ \A j \in 1..(i - 1) : text[j] # SP) + 1, Len(text))

\* the field a word resolves to: the field with that display label, or else
\* the word itself
Resolved(word) ==
    IF \E f \in LabelledFields : LABEL_MAP[f] = word
    THEN CHOOSE f \in LabelledFields : LABEL_MAP[f] = word
    ELSE word

\* the text has a space and what precedes it resolves to an answered field
\* of the session of u
Resolvable(u, text) ==
    /\ \E i \in 1..Len(text) : text[i] = SP
    /\ Len(Before(text)) = 1
    /\ Resolved(Before(text)[1]) \in DOMAIN user_sessions[u].answers

\* the step handles a text, no flow keyword, that u sends to a session in
\* edit_consult
Editing(u) ==
    /\ u \in DOMAIN user_sessions
    /\ user_sessions[u].phase = "edit_consult"
    /\ event'.user_id = u
    /\ event'.kind \in {"yes", "no", "other"}

\* the text handled is raw
EditRequest(u, raw) ==
    /\ kind_of(Typed(raw)) = event'.kind
    /\ handle_message(u, raw)

\* the step overwrites one answer of u with value and nothing else, returns
\* to confirm_consult with retry 0 and sends the confirmation of the edit,
\* then the regenerated preview
Overwritten(u, field, value) ==
    /\ u \in DOMAIN user_sessions'
    /\ user_sessions'[u].answers =
          [f \in DOMAIN user_sessions[u].answers |->
              IF f = field THEN value ELSE user_sessions[u].answers[f]]
    /\ user_sessions'[u].step = user_sessions[u].step
    /\ user_sessions'[u].mode = user_sessions[u].mode
    /\ user_sessions'[u].phase = "confirm_consult"
    /\ user_sessions'[u].retry = 0
    /\ Len(replies') = 2
    /\ replies'[1].kind = "edited"
    /\ replies'[2] = format_consult_preview(user_sessions'[u].answers)
    /\ calls' = <<>>

\* C18 as claimed: in edit_consult a text with a space whose part before the
\* first space resolves to an answered field overwrites exactly that answer
\* with the part after the space, leaves the other answers and the step as
\* they were, sets the phase to confirm_consult and retry to 0, and sends the
\* confirmation of the edit, then the regenerated preview.
C18_EditStoresPartAfterSpace ==
    [][\A u \in Users : Editing(u) => \A raw \in Texts :
        (EditRequest(u, raw) /\ Resolvable(u, Typed(raw))) =>
            Overwritten(u, Resolved(Before(Typed(raw))[1]), After(Typed(raw)))
    ]_vars

\* C18 amended: as claimed, except that the answer is overwritten with the
\* part after the first space stripped of the spaces around it.
C18_EditStoresStrippedPart ==
    [][\A u \in Users : Editing(u) => \A raw \in Texts :
        (EditRequest(u, raw) /\ Resolvable(u, Typed(raw))) =>
            /\ Overwritten(u, Resolved(Before(Typed(raw))[1]), strip(After(Typed(raw))))
            /\ replies'[1] = MsgEdited(Before(Typed(raw)), strip(After(Typed(raw))))
    ]_vars

\* C18 happens: the name was corrected by its raw field identifier
C18_Witness ==
    \E u \in Users :
        /\ event.user_id = u /\ event.phase = "edit_consult"
        /\ u \in DOMAIN user_sessions
        /\ user_sessions[u].phase = "confirm_consult"
        /\ user_sessions[u].retry = 0
        /\ user_sessions[u].answers["patient_name"] = <<"B">>
        /\ user_sessions[u].answers["furigana"] = <<"A">>
        /\ replies[1] = MsgEdited(<<"patient_name">>, <<"B">>)

\* C19: in edit_consult a text without a space, or whose part before the
\* space resolves to no answered field, leaves the session as it was (phase
\* edit_consult, answers, step and retry) and is answered only by the format
\* instruction or by the field-not-found message; no number of such texts in
\* a row escalates or deletes the session.
C19_RejectedEditChangesNothing ==
    [][\A u \in Users : Editing(u) => \A raw \in Texts :
        (EditRequest(u, raw) /\ ~Resolvable(u, Typed(raw))) =>
            /\ u \in DOMAIN user_sessions'
            /\ user_sessions'[u] = user_sessions[u]
            /\ replies' = IF \E i \in 1..Len(Typed(raw)) : Typed(raw)[i] = SP
                          THEN <<MsgNotFound(Before(Typed(raw)))>>
                          ELSE <<MSG_EDIT_FORMAT>>
            /\ calls' = <<>>
            /\ members' = members
    ]_vars

\* C19 happens: an unknown item was asked for by a session one retry short of
\* the bound, and the session is still there
C19_Witness ==
    \E u \in Users :
        /\ event.user_id = u /\ event.phase = "edit_consult" /\ event.kind = "other"
        /\ event.retry = MAX_CONFIRM_RETRIES - 1
        /\ u \in DOMAIN user_sessions
        /\ user_sessions[u].phase = "edit_consult"
        /\ user_sessions[u].retry = MAX_CONFIRM_RETRIES - 1
        /\ replies = <<MsgNotFound(<<"ja:zzz">>)>>

\* the composite states of a session
CompositeStates ==
    { <<"None", "None">>, <<"register", "None">>, <<"register", "confirm_register">>,
      <<"consult", "None">>, <<"consult", "confirm_consult">>,
      <<"consult", "edit_consult">> }

\* C20: after any sequence of messages handled one at a time, every session
\* in the store is in one of the composite states (None, no phase),
\* (register, input), (register, confirm_register), (consult, input),
\* (consult, confirm_consult), (consult, edit_consult).
C20_CompositeStatesOnly ==
    \A u \in DOMAIN user_sessions :
        <<user_sessions[u].mode, user_sessions[u].phase>> \in CompositeStates

\* C20 happens: a stored session went through registration and consultation
\* up to a correction
C20_Witness ==
    \E u \in Users :
        /\ u \in DOMAIN user_sessions /\ u \in DOMAIN members
        /\ <<user_sessions[u].mode, user_sessions[u].phase>> = <<"consult", "edit_consult">>
        /\ event.kind = "no" /\ event.phase = "confirm_consult"

---------------------------------------------------------------------------
(* step *)

\* the catalog a session of the given mode is asked from
QuestionsOf(mode) ==
    IF mode = "register" THEN REGISTER_QUESTIONS ELSE CONSULT_QUESTIONS

\* every stored session in a flow has a step that indexes its catalog
StepInRange ==
    \A u \in DOMAIN user_sessions :
        user_sessions[u].mode \in {"register", "consult"} =>
            /\ 0 <= user_sessions[u].step
            /\ user_sessions[u].step < Len(QuestionsOf(user_sessions[u].mode))

\* the step handles an answer of user u to a question of an input phase
AnswersQuestion(u) ==
    /\ event'.user_id = u /\ event'.kind \in {"yes", "no", "other"}
    /\ event'.stored /\ event'.mode \in {"register", "consult"}
    /\ event'.phase = "None"

\* an answer moves step to the next question, or, at the last question,
\* leaves it and opens the confirm phase of the flow; no other step of the
\* program moves step except back to 0
StepAdvances ==
    \A u \in DOMAIN user_sessions :
        LET ses == user_sessions[u] IN
        IF AnswersQuestion(u)
        THEN /\ u \in DOMAIN user_sessions'
             /\ user_sessions'[u].mode = ses.mode
             /\ IF ses.step + 1 < Len(QuestionsOf(ses.mode))
                THEN /\ user_sessions'[u].step = ses.step + 1
                     /\ user_sessions'[u].phase = "None"
                     /\ replies' = <<MsgQuestion(QuestionsOf(ses.mode)[ses.step + 2])>>
                ELSE /\ user_sessions'[u].step = ses.step
                     /\ user_sessions'[u].phase =
                            (IF ses.mode = "register" THEN "confirm_register"
                                                      ELSE "confirm_consult")
        ELSE u \in DOMAIN user_sessions' =>
                user_sessions'[u].step \in {0, ses.step}

\* C21: after any sequence of messages, every stored session whose mode is
\* register or consult has 0 <= step < the length of its question catalog,
\* so the lookup of the question by step in an input phase is in range; an
\* answered question raises step by exactly one, except the last one, which
\* leaves step at the last index and opens the confirm phase.
C21_StepIndexesCatalog ==
    []StepInRange /\ [][StepAdvances]_vars

\* C21 happens: the last consultation question was answered and step stayed
\* at the last index
C21_Witness ==
    \E u \in Users :
        /\ event.user_id = u /\ event.kind = "other"
        /\ event.mode = "consult" /\ event.phase = "None"
        /\ u \in DOMAIN user_sessions
        /\ user_sessions[u].phase = "confirm_consult"
        /\ user_sessions[u].step = Len(CONSULT_QUESTIONS) - 1
        /\ user_sessions[u].step > 0

---------------------------------------------------------------------------
(* retry *)

\* every stored session has a retry counter below the bound
RetryBelowBound ==
    \A u \in DOMAIN user_sessions :
        /\ 0 <= user_sessions[u].retry
        /\ user_sessions[u].retry < MAX_CONFIRM_RETRIES

\* the step handles a no or an unrecognized text of user u in a confirm phase
Declines(u) ==
    /\ event'.user_id = u /\ event'.kind \in {"no", "other"}
    /\ event'.phase \in {"confirm_register", "confirm_consult"}

\* a declined confirmation counts one retry; the one that reaches the bound
\* is answered by the escalation message alone and deletes the session; the
\* counter of a stored session rises in no other step
RetryCounts ==
    \A u \in DOMAIN user_sessions :
        LET ses == user_sessions[u] IN
        IF Declines(u)
        THEN IF ses.retry + 1 >= MAX_CONFIRM_RETRIES
             THEN /\ u \notin DOMAIN user_sessions'
                  /\ replies' = <<MSG_ESCALATION>>
                  /\ calls' = <<>>
             ELSE /\ u \in DOMAIN user_sessions'
                  /\ user_sessions'[u].retry = ses.retry + 1
                  /\ MSG_ESCALATION \notin {replies'[i] : i \in DOMAIN replies'}
        ELSE u \in DOMAIN user_sessions' =>
                user_sessions'[u].retry <= ses.retry

\* C22: after any sequence of messages, every session in the store has
\* 0 <= retry < MAX_CONFIRM_RETRIES (3); a no or an unrecognized text in
\* confirm_register or confirm_consult raises the counter by one, and the
\* one that makes it reach the bound gets the escalation message and deletes
\* the session in the same step.
C22_RetryBelowBound ==
    []RetryBelowBound /\ [][RetryCounts]_vars

\* C22 happens: a no to the registration preview was the third declined
\* confirmation and ended the session
C22_Witness ==
    \E u \in Users :
        /\ event.user_id = u /\ event.kind = "no"
        /\ event.phase = "confirm_register"
        /\ event.retry = MAX_CONFIRM_RETRIES - 1
        /\ u \notin DOMAIN user_sessions
        /\ replies = <<MSG_ESCALATION>>

---------------------------------------------------------------------------
(* what is written *)

\* the field identifiers of the consultation catalog
ConsultFields == {CONSULT_QUESTIONS[i].field : i \in 1..Len(CONSULT_QUESTIONS)}

\* a session at the consultation preview or in a correction has an answer
\* for every consultation field and for nothing else
ConsultAnswersComplete ==
    \A u \in DOMAIN user_sessions :
        user_sessions[u].phase \in {"confirm_consult", "edit_consult"} =>
            DOMAIN user_sessions[u].answers = ConsultFields

\* the step calls write_structured_data
Writes == \E i \in DOMAIN calls' : calls'[i][1] = "write_structured_data"

\* write_structured_data is called only for a stored session in
\* (consult, confirm_consult) that answered every consultation field, once,
\* with the record of those answers
WritesFromConfirmedOnly ==
    Writes =>
        \E u \in DOMAIN user_sessions :
            LET ses == user_sessions[u] IN
            /\ Got(u, "yes")
            /\ ses.mode = "consult" /\ ses.phase = "confirm_consult"
            /\ ses.step = Len(CONSULT_QUESTIONS) - 1
            /\ DOMAIN ses.answers = ConsultFields
            /\ Len(calls') = 1
            /\ calls'[1][2] = answers_to_structured_json(ses.answers)
            /\ RecordOf(calls'[1][2], ses.answers)

\* C23: write_structured_data is called only from a session in
\* (consult, confirm_consult), and in every reachable state a session in
\* phase confirm_consult or edit_consult has exactly the consultation field
\* identifiers as the keys of its answers; so no record is written from a
\* partly answered questionnaire or from registration answers, whatever
\* flow starts, cancellations, retries and corrections came before.
C23_WritesCompleteConsultOnly ==
    []ConsultAnswersComplete /\ [][WritesFromConfirmedOnly]_vars

\* C23 happens: a user who registered, answered one consultation question
\* with a blank message and corrected the answer to another had the record
\* written
C23_Witness ==
    \E u \in Users :
        /\ event.user_id = u /\ event.kind = "yes"
        /\ event.mode = "consult" /\ event.phase = "confirm_consult"
        /\ event.retry = 0
        /\ u \in DOMAIN members
        /\ Len(calls) = 1
        /\ calls[1][1] = "write_structured_data"
        /\ calls[1][2][SEC_PATIENT]["ja:shimei"] = <<"B">>
        /\ calls[1][2][SEC_PATIENT]["ja:furigana"] = <<>>
        /\ u \notin DOMAIN user_sessions

====
